---- MODULE Spec2Model ----
(***************************************************************************)
(* Model of src/index.mjs: the ODHF facility directory server.             *)
(*                                                                         *)
(* Strings are sequences of one-character strings, so that toLowerCase,    *)
(* includes and trim are computed character by character.  Letters drawn   *)
(* are ASCII.  A JavaScript null / undefined is a one-element sequence     *)
(* holding a marker that no text can equal.  A nullable reference (DATA,   *)
(* COLUMNS) is None or Some(value).                                        *)
(*                                                                         *)
(* The CSV file is the fixed file beside the server: it is drawn once and  *)
(* does not change during a run.  csv-parse is modelled by what its        *)
(* options give: one object per line after the header, keyed by the header *)
(* names, every cell a string.  The event loop runs each callback to its   *)
(* next await without interleaving; a client's disconnect is the "close"   *)
(* event of its request.                                                   *)
(***************************************************************************)
EXTENDS Integers, Sequences, FiniteSets, TLC

\* ------------------------------------------------------------ the bounds
MaxReqs == 2      \* request slots that may be in flight together
MaxRows == 27     \* most records in a drawn file
MaxCols == 3      \* most columns in a column list drawn for findCol
MaxSmallRows == 3 \* most records in a file drawn for the normalization check
MaxConns == 2     \* event-stream connections
MaxTicks == 2     \* interval ticks observed per connection

\* ------------------------------------------------------- JavaScript values
NullV == <<"null">>
Undefined == <<"undefined">>
None == <<>>
Some(x) == <<x>>

Range(s) == {s[i] : i \in 1..Len(s)}

\* !v for the values the handlers test: null, undefined and "" are falsy; an
\* array, also an empty one, is an object and is truthy.
FalsyStr(v) == v = NullV \/ v = Undefined \/ v = <<>>
IsSet(ref) == ref # None

\* ----------------------------------------------------------------- text
UpperLetters == <<"A","B","C","D","E","F","G","H","I","J","K","L","M","N","O","P","Q","R","S","T","U","V","W","X","Y","Z">>
LowerLetters == <<"a","b","c","d","e","f","g","h","i","j","k","l","m","n","o","p","q","r","s","t","u","v","w","x","y","z">>

LowerChar(c) ==
  IF \E i \in 1..26 : UpperLetters[i] = c
  THEN LowerLetters[CHOOSE i \in 1..26 : UpperLetters[i] = c]
  ELSE c

toLowerCase(s) == [i \in 1..Len(s) |-> LowerChar(s[i])]

\* String.prototype.includes: p occurs in s as a contiguous substring.
includes(s, p) ==
  \E i \in 0..(Len(s) - Len(p)) : SubSeq(s, i + 1, i + Len(p)) = p

\* The characters String.prototype.trim strips: the WhiteSpace and LineTerminator
\* code points of ECMAScript.  U+000B, U+00A0, U+1680 and U+FEFF are written as
\* themselves; a code point that a string of this module cannot hold is the
\* one character named by its number.
ws_VT == ""   \* U+000B line tabulation
ws_NBSP == " "   \* U+00A0 no-break space
ws_OGHAM == " "   \* U+1680 ogham space mark
ws_ENQUAD == "U+2000"   \* U+2000 en quad
ws_EMQUAD == "U+2001"   \* U+2001 em quad
ws_ENSPACE == "U+2002"   \* U+2002 en space
ws_EMSPACE == "U+2003"   \* U+2003 em space
ws_THREEPEREM == "U+2004"   \* U+2004 three-per-em space
ws_FOURPEREM == "U+2005"   \* U+2005 four-per-em space
ws_SIXPEREM == "U+2006"   \* U+2006 six-per-em space
ws_FIGURE == "U+2007"   \* U+2007 figure space
ws_PUNCTUATION == "U+2008"   \* U+2008 punctuation space
ws_THIN == "U+2009"   \* U+2009 thin space
ws_HAIR == "U+200A"   \* U+200A hair space
ws_LS == "U+2028"   \* U+2028 line separator
ws_PS == "U+2029"   \* U+2029 paragraph separator
ws_NNBSP == "U+202F"   \* U+202F narrow no-break space
ws_MMSP == "U+205F"   \* U+205F medium mathematical space
ws_IDEOGRAPHIC == "U+3000"   \* U+3000 ideographic space
ws_BOM == "﻿"   \* U+FEFF zero width no-break space

WhiteSpaceChars ==
  { "\t", "\n", "\f", "\r", " ", ws_VT, ws_NBSP, ws_OGHAM, ws_ENQUAD, ws_EMQUAD,
    ws_ENSPACE, ws_EMSPACE, ws_THREEPEREM, ws_FOURPEREM, ws_SIXPEREM, ws_FIGURE,
    ws_PUNCTUATION, ws_THIN, ws_HAIR, ws_LS, ws_PS, ws_NNBSP, ws_MMSP,
    ws_IDEOGRAPHIC, ws_BOM }

IsSpace(c) == c \in WhiteSpaceChars

RECURSIVE trimStart(_)
trimStart(s) ==
  IF s # <<>> /\ IsSpace(Head(s)) THEN trimStart(Tail(s)) ELSE s

RECURSIVE trimEnd(_)
trimEnd(s) ==
  IF s # <<>> /\ IsSpace(s[Len(s)]) THEN trimEnd(SubSeq(s, 1, Len(s) - 1)) ELSE s

trim(s) == trimEnd(trimStart(s))

\* ------------------------------------------------------------ the names
a_province == <<"p","r","o","v","i","n","c","e">>
a_Province == <<"P","r","o","v","i","n","c","e">>
a_ProvinceOrTerritory == <<"P","r","o","v","i","n","c","e"," ","o","r"," ","T","e","r","r","i","t","o","r","y">>
a_ProvinceSlashTerritory == <<"P","r","o","v","i","n","c","e","/","T","e","r","r","i","t","o","r","y">>
a_prov == <<"p","r","o","v">>
a_province_or_territory == <<"p","r","o","v","i","n","c","e","_","o","r","_","t","e","r","r","i","t","o","r","y">>
a_odhf_facility_type == <<"o","d","h","f","_","f","a","c","i","l","i","t","y","_","t","y","p","e">>
a_ODHFFacilityType == <<"O","D","H","F"," ","F","a","c","i","l","i","t","y"," ","T","y","p","e">>
a_FacilityType == <<"F","a","c","i","l","i","t","y"," ","T","y","p","e">>
a_facility_type == <<"f","a","c","i","l","i","t","y","_","t","y","p","e">>
a_odhfFacilityTypeSp == <<"o","d","h","f"," ","f","a","c","i","l","i","t","y"," ","t","y","p","e">>
f_FacilityName == <<"F","a","c","i","l","i","t","y"," ","N","a","m","e">>
f_City == <<"C","i","t","y">>
f_PostalCode == <<"P","o","s","t","a","l"," ","C","o","d","e">>
f_Latitude == <<"L","a","t","i","t","u","d","e">>
f_Longitude == <<"L","o","n","g","i","t","u","d","e">>
h_PROVINCE == <<"P","R","O","V","I","N","C","E">>
h_PROV == <<"P","R","O","V">>
h_FACILITY_TYPE == <<"F","A","C","I","L","I","T","Y"," ","T","Y","P","E">>
h_Name == <<"N","a","m","e">>
h_2021 == <<"2","0","2","1">>
h_10 == <<"1","0">>
h_9 == <<"9">>

\* ALIAS_MAP: each Set in its insertion order, which is its iteration order.
ALIAS_province ==
  << a_province, a_Province, a_ProvinceOrTerritory, a_ProvinceSlashTerritory,
     a_prov, a_province_or_territory >>
ALIAS_odhf_facility_type ==
  << a_odhf_facility_type, a_ODHFFacilityType, a_FacilityType, a_facility_type,
     a_odhfFacilityTypeSp >>

CSV_FILE == "odhf_v1.1.csv"

\* ---------------------------------------------------------------- findCol
\* new Map(cols.map(c => [c.toLowerCase(), c])).get(k): a later column with the
\* same lower-cased name overwrites an earlier one; undefined when there is none.
LowerGetFirst(cols, k) ==
  IF \E i \in 1..Len(cols) : toLowerCase(cols[i]) = k
  THEN cols[CHOOSE i \in 1..Len(cols) :
              /\ toLowerCase(cols[i]) = k
              /\ \A j \in 1..(i - 1) : toLowerCase(cols[j]) # k]
  ELSE Undefined

LowerGet(cols, k) ==
  IF \E i \in 1..Len(cols) : toLowerCase(cols[i]) = k
  THEN cols[CHOOSE i \in 1..Len(cols) :
              /\ toLowerCase(cols[i]) = k
              /\ \A j \in (i + 1)..Len(cols) : toLowerCase(cols[j]) # k]
  ELSE Undefined

\* The loop body from candidate i on.
RECURSIVE findColFrom(_, _, _)
findColFrom(cols, candidates, i) ==
  IF i > Len(candidates) THEN NullV
  ELSE IF candidates[i] \in Range(cols) THEN candidates[i]
  ELSE LET m == LowerGet(cols, toLowerCase(candidates[i]))
       IN  IF ~FalsyStr(m) THEN m ELSE findColFrom(cols, candidates, i + 1)

\* A resolver that answers with the alias instead of the actual column.
RECURSIVE findColAliasFrom(_, _, _)
findColAliasFrom(cols, candidates, i) ==
  IF i > Len(candidates) THEN NullV
  ELSE IF candidates[i] \in Range(cols) THEN candidates[i]
  ELSE LET m == LowerGet(cols, toLowerCase(candidates[i]))
       IN  IF ~FalsyStr(m) THEN candidates[i]
           ELSE findColAliasFrom(cols, candidates, i + 1)

findColAlias(cols, candidates) == findColAliasFrom(cols, candidates, 1)

\* A resolver whose lower-case map keeps the first column of a lower-cased name.
RECURSIVE findColKeepFirstFrom(_, _, _)
findColKeepFirstFrom(cols, candidates, i) ==
  IF i > Len(candidates) THEN NullV
  ELSE IF candidates[i] \in Range(cols) THEN candidates[i]
  ELSE LET m == LowerGetFirst(cols, toLowerCase(candidates[i]))
       IN  IF ~FalsyStr(m) THEN m
           ELSE findColKeepFirstFrom(cols, candidates, i + 1)

findColKeepFirst(cols, candidates) == findColKeepFirstFrom(cols, candidates, 1)

findCol(cols, candidates) == findColFrom(cols, candidates, 1)

\* ---------------------------------------------------------------- nullish
\* A normalization that knows no "NaN" text.
nullishNoSentinel(v) ==
  IF v = Undefined \/ v = <<>> THEN NullV ELSE v

nullish(v) ==
  IF v = Undefined \/ v = <<>> THEN NullV
  ELSE IF v = <<"N","a","N">> \/ v = <<"n","a","n">> THEN NullV
  ELSE v

\* ---------------------------------------------------------------- objects
\* A JavaScript object is the sequence of its <<key, value>> pairs in the order
\* of its own property keys: the keys that are array indices first, in ascending
\* numeric order, then the other keys in insertion order.  That is the order of
\* Object.keys, Object.entries and JSON.stringify.
Digits == <<"0","1","2","3","4","5","6","7","8","9">>

IsDigit(c) == \E i \in 1..10 : Digits[i] = c

DigitVal(c) == (CHOOSE i \in 1..10 : Digits[i] = c) - 1

\* a < b for digit strings of one length.
RECURSIVE DigitsLess(_, _)
DigitsLess(a, b) ==
  IF a = <<>> THEN FALSE
  ELSE IF Head(a) # Head(b) THEN DigitVal(Head(a)) < DigitVal(Head(b))
  ELSE DigitsLess(Tail(a), Tail(b))

\* a < b as numbers, for canonical digit strings.
IndexLess(a, b) == Len(a) < Len(b) \/ (Len(a) = Len(b) /\ DigitsLess(a, b))

\* 2^32 - 2, the largest array index.
MaxArrayIndex == <<"4","2","9","4","9","6","7","2","9","4">>

\* A canonical numeric string (no sign, no leading zero) of at most 2^32 - 2.
IsArrayIndex(k) ==
  /\ k # <<>>
  /\ \A i \in 1..Len(k) : IsDigit(k[i])
  /\ Len(k) = 1 \/ k[1] # "0"
  /\ IndexLess(k, MaxArrayIndex) \/ k = MaxArrayIndex

HasKey(obj, k) == \E i \in 1..Len(obj) : obj[i][1] = k

\* obj[k]: undefined for a key the object does not have.
Get(obj, k) ==
  IF HasKey(obj, k) THEN obj[CHOOSE i \in 1..Len(obj) : obj[i][1] = k][2]
  ELSE Undefined

\* obj[k] = v: an existing key keeps its place; a new array index goes among
\* the array indices, after the smaller ones; any other new key goes last.
ObjSet(obj, k, v) ==
  IF HasKey(obj, k)
  THEN [i \in 1..Len(obj) |-> IF obj[i][1] = k THEN <<k, v>> ELSE obj[i]]
  ELSE IF IsArrayIndex(k)
  THEN LET n == Cardinality({i \in 1..Len(obj) :
                               IsArrayIndex(obj[i][1]) /\ IndexLess(obj[i][1], k)})
       IN  SubSeq(obj, 1, n) \o << <<k, v>> >> \o SubSeq(obj, n + 1, Len(obj))
  ELSE Append(obj, <<k, v>>)

ObjectKeys(obj) == [i \in 1..Len(obj) |-> obj[i][1]]

\* ------------------------------------------------------------- the loader
\* csv-parse with columns: true: the first line names the columns, every later
\* line becomes one object keyed by them.
RECURSIVE RecordFrom(_, _, _)
RecordFrom(header, row, n) ==
  IF n = 0 THEN <<>>
  ELSE ObjSet(RecordFrom(header, row, n - 1), header[n], row[n])

parse(text) ==
  [i \in 1..Len(text.rows) |-> RecordFrom(text.header, text.rows[i], Len(text.header))]

\* A test that takes an empty array for "not loaded": if (DATA?.length) return;
AlreadyLoadedNonEmpty(D) == IsSet(D) /\ Len(D[1]) > 0

\* if (DATA) return;

AlreadyLoaded(D) == IsSet(D)

\* COLUMNS = records.length ? Object.keys(records[0]) : [];
ColumnsOf(records) ==
  IF Len(records) # 0 THEN ObjectKeys(records[1]) ELSE <<>>

\* The rejection of readFile for a file that is not there.
ReadError == <<"ENOENT: no such file or directory, open ", CSV_FILE>>

\* ------------------------------------------------------------ responses
NoResp ==
  [status |-> 0, kind |-> "none", msg |-> <<>>, columns |-> <<>>,
   records |-> <<>>, rows |-> 0]

AbsentResp ==
  [NoResp EXCEPT !.status = 400, !.kind = "error",
                 !.msg = <<"CSV not found or empty at ", CSV_FILE>>]

RootOk(D) ==
  [NoResp EXCEPT !.status = 200, !.kind = "text",
                 !.msg = <<"ODHF MCP Server (Node) is running! csv_found=true rows=">>,
                 !.rows = IF IsSet(D) THEN Len(D[1]) ELSE 0]

RootCatch(e) ==
  [NoResp EXCEPT !.status = 500, !.kind = "text", !.msg = <<"Startup error: ">> \o e]

JsonCatch(e) ==
  [NoResp EXCEPT !.status = 500, !.kind = "error", !.msg = e]

ListFields(C) ==
  IF ~IsSet(C) THEN AbsentResp
  ELSE [NoResp EXCEPT !.status = 200, !.kind = "columns", !.columns = C[1]]

\* ------------------------------------------------------ /search_facilities
ResultCap == 25

Min(a, b) == IF a < b THEN a ELSE b

\* A projection of every matching row, without the slice.
sliceNoCap(rows, n) == rows

\* Array.prototype.slice(0, n)

slice(rows, n) == SubSeq(rows, 1, Min(n, Len(rows)))

\* (x || ""): the empty string for undefined and for "".
OrEmpty(x) == IF FalsyStr(x) THEN <<>> ELSE x

\* rows.filter(r => (r[col] || "").toString().toLowerCase().includes(f))
\* The filtered array computed and dropped: rows.filter(...) without `rows =`.
FilterDiscarded(rows, col, f) == rows

Filter(rows, col, f) ==
  SelectSeq(rows, LAMBDA r : includes(toLowerCase(OrEmpty(Get(r, col))), f))

PreferredOrder(colProvince, colType) ==
  << f_FacilityName, f_City, colProvince, colType, f_PostalCode, f_Latitude,
     f_Longitude >>

Preferred(cols, colProvince, colType) ==
  SelectSeq(PreferredOrder(colProvince, colType), LAMBDA c : c \in Range(cols))

RECURSIVE Project(_, _, _)
Project(r, fields, n) ==
  IF n = 0 THEN <<>>
  ELSE ObjSet(Project(r, fields, n - 1), fields[n], nullish(Get(r, fields[n])))

Clean(r, preferred, cols) ==
  IF Len(preferred) # 0 THEN Project(r, preferred, Len(preferred))
  ELSE Project(r, cols, Len(cols))

SearchFacilities(q, D, C) ==
  IF ~IsSet(D) \/ ~IsSet(C) THEN AbsentResp
  ELSE
    LET cols == C[1]
        colProvince == findCol(cols, ALIAS_province)
        colType == findCol(cols, ALIAS_odhf_facility_type)
    IN  IF FalsyStr(colProvince) \/ FalsyStr(colType)
        THEN [NoResp EXCEPT !.status = 400, !.kind = "schema",
                            !.msg = <<"Expected columns not found.">>,
                            !.columns = cols]
        ELSE
          LET province == trim(OrEmpty(q.province))
              facilityType == trim(OrEmpty(q.facility_type))
              rows1 == IF ~FalsyStr(province)
                       THEN Filter(D[1], colProvince, toLowerCase(province))
                       ELSE D[1]
              rows == IF ~FalsyStr(facilityType)
                      THEN Filter(rows1, colType, toLowerCase(facilityType))
                      ELSE rows1
          IN  IF Len(rows) = 0
              THEN [NoResp EXCEPT !.status = 200, !.kind = "message",
                                  !.msg = <<"No results. Try another province (e.g., 'QC'/'Quebec') or facility_type.">>]
              ELSE
                LET preferred == Preferred(cols, colProvince, colType)
                    kept == slice(rows, ResultCap)
                    cleaned == [i \in 1..Len(kept) |-> Clean(kept[i], preferred, cols)]
                IN  [NoResp EXCEPT !.status = 200, !.kind = "records",
                                   !.records = cleaned]

\* What a handler does once its await of loadCSVOnce has returned.
Handle(ep, q, D, C) ==
  CASE ep = "/" -> RootOk(D)
    [] ep = "/list_fields" -> ListFields(C)
    [] ep = "/search_facilities" -> SearchFacilities(q, D, C)

\* What its catch clause sends when loadCSVOnce has thrown e.
HandleCatch(ep, e) ==
  IF ep = "/" THEN RootCatch(e) ELSE JsonCatch(e)

\* ================================================================ state
VARIABLES
  file,      \* the CSV file beside the server: unreadable, or a header and rows
  DATA,      \* let DATA = null
  COLUMNS,   \* let COLUMNS = null
  reqs,      \* the requests being handled, one per slot
  loaded,    \* history: some call of loadCSVOnce has assigned DATA and COLUMNS
  probe,     \* the last direct application of a helper: its input and output
  conns      \* the event-stream connections

vars == <<file, DATA, COLUMNS, reqs, loaded, probe, conns>>

\* ----------------------------------------------------------- drawn inputs
v_QC == <<"Q","C">>
v_Qc == <<"Q","c">>
v_ON == <<"O","N">>
v_NaN == <<"N","a","N">>
v_nan == <<"n","a","n">>
v_Nan == <<"N","a","n">>
v_Hosp == <<"H","o","s","p">>
v_Clin == <<"C","l","i","n">>

MissingFile == [readable |-> FALSE, header |-> <<>>, rows |-> <<>>]
Text(h, rows) == [readable |-> TRUE, header |-> h, rows |-> rows]

SmallFiles ==
  { MissingFile,
    Text(<<>>, <<>>),
    Text(<<a_Province, a_FacilityType>>, <<>>),
    Text(<<a_Province, a_FacilityType>>, << <<v_QC, v_Hosp>>, <<v_ON, v_Clin>> >>),
    Text(<<h_Name>>, << <<v_QC>> >>),
    Text(<<h_Name, h_2021, a_Province, a_FacilityType>>, << <<v_Hosp, v_ON, v_QC, v_Clin>> >>) }

NoQuery == [province |-> Undefined, facility_type |-> Undefined]

SmallQueries == { NoQuery, [province |-> <<"q">>, facility_type |-> Undefined] }

Requests(queries) ==
  { <<"/", NoQuery>>, <<"/list_fields", NoQuery>> }
    \cup { <<"/search_facilities", q>> : q \in queries }

CellPool == << v_Qc, v_NaN, v_ON, <<>>, v_nan, v_QC, v_Nan >>

Cell(i, j, seed) == CellPool[((i * seed + j - 1) % Len(CellPool)) + 1]

Seeds == {0, 1, 3}

SearchHeaders ==
  { <<f_FacilityName, a_ProvinceOrTerritory, a_ODHFFacilityType>>,
    <<h_PROVINCE, a_prov, h_FACILITY_TYPE>>,
    <<a_Province, f_City, a_facility_type, f_Latitude>>,
    <<h_Name, a_province>>,
    <<a_FacilityType, h_PROV>>,
    <<h_10, a_prov, h_9, a_FacilityType>> }

RowCounts == {n \in 0..MaxRows : n <= 2 \/ n >= ResultCap - 1}

SearchFiles ==
  { Text(h, [i \in 1..n |-> [j \in 1..Len(h) |-> Cell(i, j, seed)]]) :
      h \in SearchHeaders, n \in RowCounts, seed \in Seeds }

ProvinceFilters ==
  { Undefined, <<>>, <<"\r"," ">>, <<"q">>, <<"\t"," ","Q","C","\n">>, <<"n","a">>, <<"z">> }
TypeFilters == { Undefined, <<"N">>, <<"o","n",ws_NBSP>> }

SearchQueries ==
  { [province |-> p, facility_type |-> t] : p \in ProvinceFilters, t \in TypeFilters }

\* ----------------------------------------------------------------- slots
IdleSlot ==
  [pc |-> "idle", ep |-> "", q |-> NoQuery, resp |-> NoResp,
   afterLoad |-> FALSE, didRead |-> FALSE]

NoProbe == [op |-> "none", cols |-> <<>>, candidates |-> <<>>, v |-> <<>>, out |-> <<>>]
NoConn ==
  [kind |-> "none", events |-> <<>>, writableEnded |-> FALSE, keep |-> FALSE,
   timeout |-> FALSE, closed |-> FALSE, ticks |-> 0, dataLoaded |-> FALSE]

\* -------------------------------------------------------------- the actions
\* A request arrives and its handler runs up to its first suspension: the call
\* of loadCSVOnce returns at once when DATA is set, and otherwise starts
\* readFile and waits for it.
RequestArrives(r, ep, q) ==
  /\ reqs[r].pc = "idle"
  /\ reqs' = [reqs EXCEPT ![r] =
       [pc |-> IF AlreadyLoaded(DATA) THEN "resume" ELSE "reading",
        ep |-> ep, q |-> q, resp |-> NoResp,
        afterLoad |-> loaded,
        didRead |-> ~AlreadyLoaded(DATA)]]
  /\ UNCHANGED <<file, DATA, COLUMNS, loaded, probe, conns>>

\* A load that suspends between its two assignments.
loadCSVOnceResumeTorn(r) ==
  /\ reqs[r].pc = "reading"
  /\ file.readable
  /\ IF ~IsSet(DATA)
     THEN /\ DATA' = Some(parse(file))
          /\ UNCHANGED <<COLUMNS, reqs>>
     ELSE /\ COLUMNS' = Some(ColumnsOf(parse(file)))
          /\ reqs' = [reqs EXCEPT ![r].pc = "resume"]
          /\ UNCHANGED DATA
  /\ loaded' = TRUE
  /\ UNCHANGED <<file, probe, conns>>

\* readFile settles.  A rejection leaves loadCSVOnce by throwing, and the
\* handler's catch clause answers.  Otherwise the text is parsed and DATA and
\* COLUMNS are assigned in one run of the event loop.
loadCSVOnceResume(r) ==
  /\ reqs[r].pc = "reading"
  /\ IF ~file.readable
     THEN /\ reqs' = [reqs EXCEPT ![r].pc = "done",
                                  ![r].resp = HandleCatch(reqs[r].ep, ReadError)]
          /\ UNCHANGED <<DATA, COLUMNS, loaded>>
     ELSE LET records == parse(file)
          IN  /\ DATA' = Some(records)
              /\ COLUMNS' = Some(ColumnsOf(records))
              /\ loaded' = TRUE
              /\ reqs' = [reqs EXCEPT ![r].pc = "resume"]
  /\ UNCHANGED <<file, probe, conns>>

\* The handler continues after `await loadCSVOnce()` and answers.
HandlerResume(r) ==
  /\ reqs[r].pc = "resume"
  /\ reqs' = [reqs EXCEPT ![r].pc = "done",
                          ![r].resp = Handle(reqs[r].ep, reqs[r].q, DATA, COLUMNS)]
  /\ UNCHANGED <<file, DATA, COLUMNS, loaded, probe, conns>>

\* The response has gone out; the slot takes the next request.
ResponseSent(r) ==
  /\ reqs[r].pc = "done"
  /\ reqs' = [reqs EXCEPT ![r] = IdleSlot]
  /\ UNCHANGED <<file, DATA, COLUMNS, loaded, probe, conns>>

\* ------------------------------------------------- the server, concurrently
Init ==
  /\ file \in SmallFiles
  /\ DATA = None
  /\ COLUMNS = None
  /\ reqs = [r \in 1..MaxReqs |-> IdleSlot]
  /\ loaded = FALSE
  /\ probe = NoProbe
  /\ conns = [c \in 1..MaxConns |-> NoConn]

Arrive == \E r \in DOMAIN reqs : \E rq \in Requests(SmallQueries) : RequestArrives(r, rq[1], rq[2])
LoadResume == \E r \in DOMAIN reqs : loadCSVOnceResume(r)
Resume == \E r \in DOMAIN reqs : HandlerResume(r)
Sent == \E r \in DOMAIN reqs : ResponseSent(r)

Next == Arrive \/ LoadResume \/ Resume \/ Sent

Spec == Init /\ [][Next]_vars

\* --------------------------------------------- /search_facilities, one by one
SearchInit ==
  /\ file \in SearchFiles
  /\ DATA = None
  /\ COLUMNS = None
  /\ reqs = [r \in 1..1 |-> IdleSlot]
  /\ loaded = FALSE
  /\ probe = NoProbe
  /\ conns = [c \in 1..MaxConns |-> NoConn]

SearchArrive == \E rq \in Requests(SearchQueries) : RequestArrives(1, rq[1], rq[2])

SearchNext == SearchArrive \/ LoadResume \/ Resume \/ Sent

SearchSpec == SearchInit /\ [][SearchNext]_vars

\* ------------------------------------- the output normalization, on its own
\* nullish applied to a drawn value, undefined among them.
ProbeValues == Range(CellPool) \cup {Undefined}

ApplyNullish ==
  /\ \E v \in ProbeValues :
       probe' = [NoProbe EXCEPT !.op = "nullish", !.v = v, !.out = nullish(v)]
  /\ UNCHANGED <<file, DATA, COLUMNS, reqs, loaded, conns>>

NormFiles ==
  { Text(h, [i \in 1..n |-> [j \in 1..Len(h) |-> Cell(i, j, seed)]]) :
      h \in { <<a_Province, f_City, a_facility_type, f_Latitude>>,
              <<h_PROVINCE, a_prov, h_FACILITY_TYPE>> },
      n \in 0..MaxSmallRows, seed \in {1, 3} }

NormInit ==
  /\ file \in NormFiles
  /\ DATA = None
  /\ COLUMNS = None
  /\ reqs = [r \in 1..1 |-> IdleSlot]
  /\ loaded = FALSE
  /\ probe = NoProbe
  /\ conns = [c \in 1..MaxConns |-> NoConn]

NormArrive == \E rq \in Requests(SmallQueries) : RequestArrives(1, rq[1], rq[2])

NormNext == NormArrive \/ LoadResume \/ Resume \/ Sent \/ ApplyNullish

NormSpec == NormInit /\ [][NormNext]_vars

\* ------------------------------------------------------- findCol, on its own
NamePool ==
  { a_province, a_Province, h_PROVINCE, a_prov, h_PROV, a_FacilityType,
    h_FACILITY_TYPE, f_City }

\* Column lists as Object.keys yields them: no name twice.
ColumnLists ==
  UNION { { cs \in [1..n -> NamePool] : \A i, j \in 1..n : i # j => cs[i] # cs[j] } :
          n \in 0..MaxCols }

AliasSets ==
  { ALIAS_province, ALIAS_odhf_facility_type, <<a_prov, a_Province>>, <<>> }

\* findCol(cols, candidates) on the drawn column list and alias set.
ApplyFindCol ==
  /\ probe.op = "input"
  /\ probe' = [probe EXCEPT !.op = "findCol",
                            !.out = findCol(probe.cols, probe.candidates)]
  /\ UNCHANGED <<file, DATA, COLUMNS, reqs, loaded, conns>>

FindColInit ==
  /\ file = MissingFile
  /\ DATA = None
  /\ COLUMNS = None
  /\ reqs = [r \in 1..1 |-> IdleSlot]
  /\ loaded = FALSE
  /\ probe \in { [NoProbe EXCEPT !.op = "input", !.cols = cols, !.candidates = candidates] :
                   cols \in ColumnLists, candidates \in AliasSets }
  /\ conns = [c \in 1..MaxConns |-> NoConn]

FindColNext == ApplyFindCol

FindColSpec == FindColInit /\ [][FindColNext]_vars

\* ------------------------------------------------------ the event streams
\* TOOLS_MANIFEST, by the names of its tools.
TOOLS_MANIFEST == <<"list_fields", "search_facilities">>

\* { event: "list_tools", data: { tools: TOOLS_MANIFEST } }
ListToolsPayload == <<"list_tools">> \o TOOLS_MANIFEST

\* sseWrite(res, event, dataObj): the two writes of one event, logged with what
\* the response and the connection were when they were made.
sseWrite(c, event, dataObj) ==
  Append(conns[c].events,
         [event |-> event, data |-> dataObj,
          afterEnd |-> conns[c].writableEnded, afterClose |-> conns[c].closed])

\* A /sse_once that writes its message and never sets the timeout.
ConnectSseOnceNoTimer(c) ==
  /\ conns[c].kind = "none"
  /\ conns' = [conns EXCEPT ![c] =
       [NoConn EXCEPT !.kind = "sse_once",
                      !.events = sseWrite(c, "message", ListToolsPayload),
                      !.timeout = FALSE,
                      !.dataLoaded = IsSet(DATA)]]
  /\ UNCHANGED <<file, DATA, COLUMNS, reqs, loaded, probe>>

\* GET /sse_once: one message, then setTimeout(() => res.end(), 50).
ConnectSseOnce(c) ==
  /\ conns[c].kind = "none"
  /\ conns' = [conns EXCEPT ![c] =
       [NoConn EXCEPT !.kind = "sse_once",
                      !.events = sseWrite(c, "message", ListToolsPayload),
                      !.timeout = TRUE,
                      !.dataLoaded = IsSet(DATA)]]
  /\ UNCHANGED <<file, DATA, COLUMNS, reqs, loaded, probe>>

\* The timeout of /sse_once fires: res.end().
SseOnceTimeout(c) ==
  /\ conns[c].timeout
  /\ conns' = [conns EXCEPT ![c].timeout = FALSE, ![c].writableEnded = TRUE]
  /\ UNCHANGED <<file, DATA, COLUMNS, reqs, loaded, probe>>

\* GET /sse: one message, then setInterval(..., 10000) and req.on("close", ...).
ConnectSse(c) ==
  /\ conns[c].kind = "none"
  /\ conns' = [conns EXCEPT ![c] =
       [NoConn EXCEPT !.kind = "sse",
                      !.events = sseWrite(c, "message", ListToolsPayload),
                      !.keep = TRUE,
                      !.dataLoaded = IsSet(DATA)]]
  /\ UNCHANGED <<file, DATA, COLUMNS, reqs, loaded, probe>>

\* The interval of /sse fires.
KeepTick(c) ==
  /\ conns[c].keep
  /\ conns[c].ticks < MaxTicks
  /\ IF conns[c].writableEnded
     THEN conns' = [conns EXCEPT ![c].keep = FALSE, ![c].ticks = @ + 1]
     ELSE conns' = [conns EXCEPT ![c].events = sseWrite(c, "ping", <<"keepalive">>),
                                 ![c].ticks = @ + 1]
  /\ UNCHANGED <<file, DATA, COLUMNS, reqs, loaded, probe>>

\* A close handler that leaves the interval running.
ClientCloseKeepsTimer(c) ==
  /\ conns[c].kind # "none"
  /\ ~conns[c].closed
  /\ conns' = [conns EXCEPT ![c].closed = TRUE]
  /\ UNCHANGED <<file, DATA, COLUMNS, reqs, loaded, probe>>

\* The client goes away and the request emits "close": on /sse the listener
\* clears the interval; /sse_once has no listener.
ClientClose(c) ==
  /\ conns[c].kind # "none"
  /\ ~conns[c].closed
  /\ conns' = [conns EXCEPT ![c].closed = TRUE,
                            ![c].keep = IF conns[c].kind = "sse" THEN FALSE ELSE @]
  /\ UNCHANGED <<file, DATA, COLUMNS, reqs, loaded, probe>>

SseFile == Text(<<a_Province, a_FacilityType>>, << <<v_QC, v_Hosp>> >>)

SseInit ==
  /\ file = SseFile
  /\ DATA = None
  /\ COLUMNS = None
  /\ reqs = [r \in 1..1 |-> IdleSlot]
  /\ loaded = FALSE
  /\ probe = NoProbe
  /\ conns = [c \in 1..MaxConns |-> NoConn]

SseArrive == RequestArrives(1, "/", NoQuery)
OpenOnce == \E c \in DOMAIN conns : ConnectSseOnce(c)
OnceTimeout == \E c \in DOMAIN conns : SseOnceTimeout(c)
OpenSse == \E c \in DOMAIN conns : ConnectSse(c)
Tick == \E c \in DOMAIN conns : KeepTick(c)
Close == \E c \in DOMAIN conns : ClientClose(c)

SseNext ==
  \/ SseArrive \/ LoadResume \/ Resume \/ Sent
  \/ OpenOnce \/ OnceTimeout \/ OpenSse \/ Tick \/ Close

SseSpec == SseInit /\ [][SseNext]_vars

\* A timeout that has been set fires.
SseFairSpec ==
  SseSpec /\ \A c \in 1..MaxConns : WF_vars(SseOnceTimeout(c))

\* ================================================================ claims
Done(r) == reqs[r].pc = "done"
SearchDone(r) == Done(r) /\ reqs[r].ep = "/search_facilities"

\* v contains f as a substring when letter case is ignored, position by position.
CIContains(v, f) ==
  \E i \in 0..(Len(v) - Len(f)) :
    \A k \in 1..Len(f) : LowerChar(v[i + k]) = LowerChar(f[k])

\* The text a record stores under a column: empty when it stores none.
StoredText(r, col) ==
  IF HasKey(r, col) /\ Get(r, col) # NullV THEN Get(r, col) ELSE <<>>

TrimmedProvince(q) == trim(OrEmpty(q.province))
TrimmedType(q) == trim(OrEmpty(q.facility_type))

\* M: the records that satisfy every non-empty filter, in dataset order.
MatchingRows(q, rows, colProvince, colType) ==
  SelectSeq(rows, LAMBDA r :
    /\ TrimmedProvince(q) # <<>> => CIContains(StoredText(r, colProvince), TrimmedProvince(q))
    /\ TrimmedType(q) # <<>> => CIContains(StoredText(r, colType), TrimmedType(q)))

ResolvedProvince == findCol(COLUMNS[1], ALIAS_province)
ResolvedType == findCol(COLUMNS[1], ALIAS_odhf_facility_type)
BothResolve ==
  /\ IsSet(DATA) /\ IsSet(COLUMNS)
  /\ ~FalsyStr(ResolvedProvince) /\ ~FalsyStr(ResolvedType)

Count(s, x) == Cardinality({i \in 1..Len(s) : s[i] = x})

\* The value the normalization rule gives a stored cell.
Normalized(x) ==
  IF x = Undefined \/ x = <<>> \/ x = v_NaN \/ x = v_nan THEN NullV ELSE x

\* ---------------------------------------------------------------- C1
\* C1: once a call of loadCSVOnce has completed successfully (a load of zero
\* records included), no request that starts afterwards reads the file, DATA
\* and COLUMNS never change again, and every answer of / and /list_fields
\* reports the row count and the column list of that load.
C1_NoRereadAfterLoad ==
  /\ [](\A r \in DOMAIN reqs :
          /\ reqs[r].afterLoad => ~reqs[r].didRead
          /\ (Done(r) /\ reqs[r].afterLoad /\ reqs[r].ep = "/")
               => reqs[r].resp.status = 200 /\ reqs[r].resp.rows = Len(DATA[1])
          /\ (Done(r) /\ reqs[r].afterLoad /\ reqs[r].ep = "/list_fields")
               => reqs[r].resp.status = 200 /\ reqs[r].resp.columns = COLUMNS[1])
  /\ [][loaded => (DATA' = DATA /\ COLUMNS' = COLUMNS)]_vars

\* A request that arrived after a load of zero records has answered without
\* reading the file.
C1_Witness ==
  /\ loaded /\ DATA = Some(<<>>)
  /\ \E r \in DOMAIN reqs : Done(r) /\ reqs[r].afterLoad /\ ~reqs[r].didRead

\* ---------------------------------------------------------------- C2
DatasetAbsent == ~file.readable \/ Len(parse(file)) = 0

\* C2: whenever the dataset is absent (the file cannot be read, or parses to
\* zero records), /list_fields and /search_facilities answer 400 with a message
\* that holds the file path, / answers 500, and DATA and COLUMNS hold no
\* records and no columns.
C2_AbsentDatasetResponses ==
  DatasetAbsent =>
    /\ \A r \in DOMAIN reqs :
         Done(r) =>
           /\ reqs[r].ep \in {"/list_fields", "/search_facilities"}
                => reqs[r].resp.status = 400 /\ CSV_FILE \in Range(reqs[r].resp.msg)
           /\ reqs[r].ep = "/" => reqs[r].resp.status = 500
    /\ DATA \in {None, Some(<<>>)}
    /\ COLUMNS \in {None, Some(<<>>)}

\* ---------------------------------------------------------------- C3
Probed == probe.op = "findCol"
ExactAt(i) == probe.candidates[i] \in Range(probe.cols)
FoldedAt(i) ==
  \E c \in Range(probe.cols) : toLowerCase(c) = toLowerCase(probe.candidates[i])
FirstOf(S) == CHOOSE i \in S : \A j \in S : i <= j
ExactHits == {i \in 1..Len(probe.candidates) : ExactAt(i)}
FoldedHits == {i \in 1..Len(probe.candidates) : FoldedAt(i)}

\* C3 as claimed: the first alias that matches a column exactly wins over every
\* case-insensitive match; only with no exact match at all does the first
\* case-insensitively matching alias (or the column it matches) come back.
C3_ExactAlwaysPreferred ==
  Probed =>
    IF ExactHits # {} THEN probe.out = probe.candidates[FirstOf(ExactHits)]
    ELSE IF FoldedHits # {}
    THEN \/ probe.out = probe.candidates[FirstOf(FoldedHits)]
         \/ /\ probe.out \in Range(probe.cols)
            /\ toLowerCase(probe.out) = toLowerCase(probe.candidates[FirstOf(FoldedHits)])
    ELSE probe.out = NullV

\* C3 amended: findCol takes the aliases in order and stops at the first one
\* that matches either way: it returns that alias when it equals a column
\* exactly, and otherwise the last column whose lower-cased name equals the
\* lower-cased alias; it returns none when no alias matches either way.
C3_FirstAliasEitherWay ==
  Probed =>
    IF FoldedHits = {} THEN probe.out = NullV
    ELSE LET i == FirstOf(FoldedHits)
             a == probe.candidates[i]
         IN  IF ExactAt(i) THEN probe.out = a
             ELSE \E n \in 1..Len(probe.cols) :
                    /\ probe.out = probe.cols[n]
                    /\ toLowerCase(probe.cols[n]) = toLowerCase(a)
                    /\ \A m \in (n + 1)..Len(probe.cols) :
                         toLowerCase(probe.cols[m]) # toLowerCase(a)

\* An earlier alias matches only case-insensitively, a later alias matches
\* exactly, and the earlier one's column is returned.
C3_Witness ==
  /\ Probed
  /\ ExactHits # {} /\ FoldedHits # {}
  /\ FirstOf(FoldedHits) < FirstOf(ExactHits)
  /\ probe.out # probe.candidates[FirstOf(ExactHits)]
  /\ probe.out \in Range(probe.cols)

\* ---------------------------------------------------------------- C4
\* C4: with both logical columns resolved, /search_facilities answers 200 with
\* a message when no record matches the trimmed filters, and otherwise with the
\* projections of the first min(25, |M|) matching records, in order; the array
\* is never empty.
C4_SearchResult ==
  \A r \in DOMAIN reqs :
    (SearchDone(r) /\ BothResolve) =>
      LET M == MatchingRows(reqs[r].q, DATA[1], ResolvedProvince, ResolvedType)
          resp == reqs[r].resp
          n == IF Len(M) < 25 THEN Len(M) ELSE 25
          pref == Preferred(COLUMNS[1], ResolvedProvince, ResolvedType)
      IN  IF Len(M) = 0
          THEN resp.status = 200 /\ resp.kind = "message" /\ resp.records = <<>>
          ELSE /\ resp.status = 200 /\ resp.kind = "records"
               /\ Len(resp.records) = n
               /\ Len(resp.records) > 0
               /\ \A i \in 1..n :
                    resp.records[i] = Clean(M[i], pref, COLUMNS[1])

\* More than 25 records match a non-empty province filter and 25 come back.
C4_Witness ==
  \E r \in DOMAIN reqs :
    /\ SearchDone(r) /\ BothResolve
    /\ TrimmedProvince(reqs[r].q) # <<>>
    /\ Len(MatchingRows(reqs[r].q, DATA[1], ResolvedProvince, ResolvedType)) > 25
    /\ Len(reqs[r].resp.records) = 25

\* ---------------------------------------------------------------- C5
ManifestEvent(e) == e.event = "message" /\ e.data = <<"list_tools", "list_fields", "search_facilities">>
KeepaliveEvent(e) == e.event = "ping" /\ e.data = <<"keepalive">>

\* C5: on /sse the first event is the list_tools message, every tick of the
\* interval writes one keepalive event, the close of the request cancels the
\* interval, and no event is written after the close.
C5_SseKeepalive ==
  \A c \in DOMAIN conns :
    conns[c].kind = "sse" =>
      /\ Len(conns[c].events) = 1 + conns[c].ticks
      /\ ManifestEvent(conns[c].events[1])
      /\ \A i \in 2..Len(conns[c].events) : KeepaliveEvent(conns[c].events[i])
      /\ \A i \in 1..Len(conns[c].events) : ~conns[c].events[i].afterClose
      /\ conns[c].closed => ~conns[c].keep

\* A /sse connection that wrote a keepalive, was closed, and has ticks left that
\* the cancelled interval will not take.
C5_Witness ==
  \E c \in DOMAIN conns :
    /\ conns[c].kind = "sse" /\ conns[c].closed
    /\ conns[c].ticks >= 1 /\ conns[c].ticks < MaxTicks
    /\ Len(conns[c].events) = 1 + conns[c].ticks

\* ---------------------------------------------------------------- C6
\* C6: on /sse_once exactly one event is ever written, the list_tools message
\* with the two-tool manifest, before the stream has ended; the server
\* eventually ends the stream; and this is so with the dataset loaded or not.
C6_SseOnce ==
  /\ [](\A c \in DOMAIN conns :
          conns[c].kind = "sse_once" =>
            /\ Len(conns[c].events) = 1
            /\ ManifestEvent(conns[c].events[1])
            /\ ~conns[c].events[1].afterEnd
            /\ Len(TOOLS_MANIFEST) = 2)
  /\ \A c \in 1..MaxConns :
       (conns[c].kind = "sse_once") ~> (conns[c].kind = "sse_once" /\ conns[c].writableEnded)

\* Two /sse_once streams have ended with their one event, one opened before the
\* dataset was loaded and one after.
C6_Witness ==
  \E c, d \in DOMAIN conns :
    /\ conns[c].kind = "sse_once" /\ conns[d].kind = "sse_once"
    /\ conns[c].writableEnded /\ conns[d].writableEnded
    /\ ~conns[c].dataLoaded /\ conns[d].dataLoaded
    /\ conns[c].events = conns[d].events

\* ---------------------------------------------------------------- C7
\* What a request is answered when it is served alone, after one load.
SerialResponse(ep, q) ==
  IF ~file.readable THEN HandleCatch(ep, ReadError)
  ELSE Handle(ep, q, Some(parse(file)), Some(ColumnsOf(parse(file))))

\* C7: when several requests each read and parse the file, every load assigns
\* the same DATA and COLUMNS, a handler never resumes with DATA set and COLUMNS
\* unset or of another parse, and every request is answered as when served
\* alone.
C7_RaceHarmless ==
  /\ IsSet(DATA) => (DATA = Some(parse(file)) /\ COLUMNS = Some(ColumnsOf(DATA[1])))
  /\ IsSet(COLUMNS) => IsSet(DATA)
  /\ \A r \in DOMAIN reqs :
       /\ reqs[r].pc = "resume" => (IsSet(DATA) /\ IsSet(COLUMNS))
       /\ Done(r) => reqs[r].resp = SerialResponse(reqs[r].ep, reqs[r].q)

\* Two requests have both read the file and both been answered from it.
C7_Witness ==
  \E r1, r2 \in DOMAIN reqs :
    /\ r1 # r2
    /\ Done(r1) /\ Done(r2)
    /\ reqs[r1].didRead /\ reqs[r2].didRead
    /\ file.readable /\ Len(parse(file)) > 0
    /\ reqs[r1].ep = "/search_facilities"

\* ---------------------------------------------------------------- C8
\* The records that the answer of slot r was projected from.
SourceRows(r) ==
  LET M == MatchingRows(reqs[r].q, DATA[1], ResolvedProvince, ResolvedType)
  IN  SubSeq(M, 1, IF Len(M) < 25 THEN Len(M) ELSE 25)

\* C8: every value of a returned record is the normalization of the stored
\* cell: "", "NaN", "nan" and a missing key give null, every other value is
\* passed through; and nullish itself maps every value that way.
C8_Normalization ==
  /\ \A r \in DOMAIN reqs :
       (SearchDone(r) /\ reqs[r].resp.kind = "records") =>
         LET src == SourceRows(r)
         IN  \A i \in 1..Len(reqs[r].resp.records) :
               \A k \in 1..Len(reqs[r].resp.records[i]) :
                 LET pair == reqs[r].resp.records[i][k]
                 IN  pair[2] = Normalized(Get(src[i], pair[1]))
  /\ probe.op = "nullish" => probe.out = Normalized(probe.v)

\* nullish has turned undefined into null, and an answer holds both a null that
\* stands for a stored "NaN" and the text "Nan" passed through.
C8_Witness ==
  /\ probe.op = "nullish" /\ probe.v = Undefined /\ probe.out = NullV
  /\ \E r \in DOMAIN reqs :
       /\ SearchDone(r) /\ reqs[r].resp.kind = "records"
       /\ \E i \in 1..Len(reqs[r].resp.records) :
            \E k \in 1..Len(reqs[r].resp.records[i]) :
              /\ reqs[r].resp.records[i][k][2] = NullV
              /\ Get(SourceRows(r)[i], reqs[r].resp.records[i][k][1]) = v_NaN
       /\ \E i \in 1..Len(reqs[r].resp.records) :
            \E k \in 1..Len(reqs[r].resp.records[i]) :
              reqs[r].resp.records[i][k][2] = v_Nan

\* ---------------------------------------------------------------- C9
\* C9: whenever /search_facilities answers with records, the preferred-field
\* list holds both resolved columns, each once and in the fixed order, every
\* record has exactly the preferred keys, and the all-columns fallback is not
\* taken.
C9_PreferredHoldsResolved ==
  \A r \in DOMAIN reqs :
    (SearchDone(r) /\ reqs[r].resp.kind = "records") =>
      LET colProvince == ResolvedProvince
          colType == ResolvedType
          pref == Preferred(COLUMNS[1], colProvince, colType)
      IN  /\ Count(pref, colProvince) = 1
          /\ Count(pref, colType) = 1
          /\ \E i, j \in 1..Len(pref) :
               i < j /\ pref[i] = colProvince /\ pref[j] = colType
          /\ colProvince \in Range(COLUMNS[1])
          /\ colType \in Range(COLUMNS[1])
          /\ \A i \in 1..Len(reqs[r].resp.records) :
               /\ ObjectKeys(reqs[r].resp.records[i]) = pref
               /\ HasKey(reqs[r].resp.records[i], colProvince)
               /\ HasKey(reqs[r].resp.records[i], colType)

\* Records have come back from a dataset whose province column is named by no
\* alias exactly and whose only preferred fields are the two resolved columns.
C9_Witness ==
  \E r \in DOMAIN reqs :
    /\ SearchDone(r) /\ reqs[r].resp.kind = "records"
    /\ ResolvedProvince \notin Range(ALIAS_province)
    /\ Len(Preferred(COLUMNS[1], ResolvedProvince, ResolvedType)) = 2

\* ---------------------------------------------------------------- C10
\* The value under key col of every returned record is a non-null text that
\* contains f, letter case ignored.
AllCarry(r, col, f) ==
  \A i \in 1..Len(reqs[r].resp.records) :
    LET v == Get(reqs[r].resp.records[i], col)
    IN  v # NullV /\ v # Undefined /\ CIContains(v, f)

\* The value is that text, or null standing for a stored "NaN" or "nan" that
\* contains f.
AllCarryOrNaN(r, col, f) ==
  LET src == SourceRows(r)
  IN  /\ Len(src) = Len(reqs[r].resp.records)
      /\ \A i \in 1..Len(reqs[r].resp.records) :
           LET v == Get(reqs[r].resp.records[i], col)
               stored == Get(src[i], col)
           IN  /\ v # Undefined
               /\ CIContains(StoredText(src[i], col), f)
               /\ \/ v # NullV /\ v = stored /\ CIContains(v, f)
                  \/ v = NullV /\ stored \in {v_NaN, v_nan} /\ CIContains(v_nan, f)

\* C10 as claimed: under a non-empty filter every returned record carries
\* under the resolved key a non-null text that contains the filter.
C10_ReturnedValueContainsFilter ==
  \A r \in DOMAIN reqs :
    (SearchDone(r) /\ reqs[r].resp.kind = "records") =>
      /\ TrimmedProvince(reqs[r].q) # <<>>
           => AllCarry(r, ResolvedProvince, TrimmedProvince(reqs[r].q))
      /\ TrimmedType(reqs[r].q) # <<>>
           => AllCarry(r, ResolvedType, TrimmedType(reqs[r].q))

\* C10 amended: the value is a text that contains the filter, or null where
\* the stored cell is exactly "NaN" or "nan", which contains the filter.
C10_ContainsFilterOrNullForNaN ==
  \A r \in DOMAIN reqs :
    (SearchDone(r) /\ reqs[r].resp.kind = "records") =>
      /\ TrimmedProvince(reqs[r].q) # <<>>
           => AllCarryOrNaN(r, ResolvedProvince, TrimmedProvince(reqs[r].q))
      /\ TrimmedType(reqs[r].q) # <<>>
           => AllCarryOrNaN(r, ResolvedType, TrimmedType(reqs[r].q))

\* Under the province filter "na" a record has come back whose province is
\* null, next to one whose province is a text.
C10_Witness ==
  \E r \in DOMAIN reqs :
    /\ SearchDone(r) /\ reqs[r].resp.kind = "records"
    /\ TrimmedProvince(reqs[r].q) = <<"n","a">>
    /\ \E i \in 1..Len(reqs[r].resp.records) :
         Get(reqs[r].resp.records[i], ResolvedProvince) = NullV
    /\ \E i \in 1..Len(reqs[r].resp.records) :
         Get(reqs[r].resp.records[i], ResolvedProvince) # NullV

====
